---------------------------- MODULE Spec2Model ----------------------------
(***************************************************************************)
(* A model of the StatusNotifierItem / DBusMenu tray adapter of gpui:      *)
(*   crates/gpui/src/platform/linux/xdg_desktop_portal/status_notifier/    *)
(*     item.rs      the item interface object, its setters, the bridge     *)
(*     dbusmenu.rs  the menu interface object and the layout serializer    *)
(* and of the tray value of crates/gpui/src/tray.rs.                       *)
(*                                                                         *)
(* The interface object lives behind the object server's read/write lock   *)
(* (InterfaceRef::get_mut): a setter of the application is split at its     *)
(* await points (lock acquired and field written; signal emitted; return    *)
(* and release), bus handlers run while the lock is free.                   *)
(***************************************************************************)
EXTENDS Integers, Sequences, FiniteSets, TLC

VARIABLES
    iface,      \* StatusNotifierItemInterface {id, callbacks, options, menu}
    lock,       \* the interface's lock: "free" or "write" (held by a setter)
    app,        \* the application's setter call in progress
    emitted,    \* the signal put on the bus by the last step, or NoSignal
    tx,         \* a title+tooltip update the application makes as one unit
    snap,       \* the last observation of Title and ToolTip by a bus client
    queue,      \* messages in the calloop channel (sent, not yet drained)
    rxAlive,    \* the receiving half of the channel still exists
    sent,       \* history: every message a send accepted, in send order
    delivered,  \* history: every message handed to the consumer's callback
    post,       \* what the last process_events call returned
    budget,     \* how many more messages the bus clients will have accepted
    call,       \* the bus call handled by the last step, or NoCall
    menuIface,  \* DBusMenuInterface {menu, event_sender}, or NotServed
    tray,       \* the Tray value the application builds
    ctor,       \* StatusNotifierItem::new: its arguments, position and result
    task        \* the inbound handler the bus executor is running, or Idle

vars == <<iface, lock, app, emitted, tx, snap, queue, rxAlive, sent,
          delivered, post, budget, call, menuIface, tray, ctor, task>>

itemVars   == <<iface, lock, app>>
bridgeVars == <<queue, rxAlive, sent, delivered, post, budget>>

-----------------------------------------------------------------------------
(* Bounds of the model *)

\* the messages sent into the channel in one behaviour of Spec
MaxSent == 3
\* the messages sent into the channel in one behaviour of SpecBus
MaxBusSent == 1

\* the children a generated menu node has at most
MaxWidth == 2

\* how many messages the bus clients send while the consumer may stay away
MaxUnpolled == 2

\* the integers bus clients pass: coordinates, deltas, menu ids, depths
Ints == {0 - 1, 0, 2}

-----------------------------------------------------------------------------
(* Data: item.rs lines 15-175 *)

\* Option<T>: None is the empty sequence, Some(v) the sequence <<v>>
None == <<>>
Some(v) == <<v>>

Categories == {"Category::ApplicationStatus", "Category::Communications",
               "Category::SystemServices", "Category::Hardware"}

Statuses == {"Status::Active", "Status::Passive", "Status::NeedsAttention"}

\* impl Display for Category: write!(f, "{:?}", self), the variant's name
CategoryToString(c) ==
    CASE c = "Category::ApplicationStatus" -> "ApplicationStatus"
      [] c = "Category::Communications"    -> "Communications"
      [] c = "Category::SystemServices"    -> "SystemServices"
      [] c = "Category::Hardware"          -> "Hardware"

\* impl Display for Status: write!(f, "{:?}", self), the variant's name
StatusToString(s) ==
    CASE s = "Status::Active"         -> "Active"
      [] s = "Status::Passive"        -> "Passive"
      [] s = "Status::NeedsAttention" -> "NeedsAttention"

Pixmap(w, h, bytes) == [width |-> w, height |-> h, bytes |-> bytes]

\* enum Icon { Name(String), Pixmaps(Vec<Pixmap>) }
IconName(s)     == [Name |-> s]
IconPixmaps(ps) == [Pixmaps |-> ps]
IsName(icon)    == DOMAIN icon = {"Name"}

\* impl Default for Icon
IconDefault == IconName("")

name_or_default(icon) == IF IsName(icon) THEN icon.Name ELSE ""

\* a faulty variant of pixmaps_or_default: a named icon reads as a placeholder
pixmaps_or_default_placeholder(icon) ==
    IF IsName(icon) THEN <<[width |-> 0, height |-> 0, bytes |-> <<>>]>> ELSE icon.Pixmaps

pixmaps_or_default(icon) == IF IsName(icon) THEN <<>> ELSE icon.Pixmaps

ToolTip(icon, title, description) ==
    [icon |-> icon, title |-> title, description |-> description]

ToolTipDefault == ToolTip(IconDefault, "", "")

\* impl From<ToolTip> for Structure: (icon name, icon pixmaps, title, description)
ToolTipToStructure(value) ==
    <<name_or_default(value.icon), pixmaps_or_default(value.icon), value.title,
      value.description>>

Attention(icon, movie) == [icon |-> icon, movie_name |-> movie]

AttentionDefault == Attention(IconDefault, "")

\* #[derive(Default)] StatusNotifierItemOptions
OptionsDefault ==
    [category        |-> "Category::ApplicationStatus",
     title           |-> "",
     status          |-> "Status::Active",
     window_id       |-> 0,
     icon_theme_path |-> "",
     icon            |-> IconDefault,
     overlay         |-> IconDefault,
     attention       |-> AttentionDefault,
     is_menu         |-> FALSE,
     tooltip         |-> ToolTipDefault]

\* #[derive(Default)] Callbacks: every slot None
CallbacksDefault ==
    [on_context_menu                 |-> None,
     on_activate                     |-> None,
     on_secondary_activate           |-> None,
     on_scroll                       |-> None,
     on_provide_xdg_activation_token |-> None]

DBUS_MENU_PATH == "/MenuBar"

\* OwnedObjectPath::default()
DefaultPath == "/"

-----------------------------------------------------------------------------
(* The item interface: property getters, item.rs lines 216-294 *)

category(i) == CategoryToString(i.options.category)

id(i) == i.id

title(i) == i.options.title

status(i) == StatusToString(i.options.status)

window_id(i) == i.options.window_id

icon_theme_path(i) == i.options.icon_theme_path

icon_name(i) == name_or_default(i.options.icon)

icon_pixmap(i) == pixmaps_or_default(i.options.icon)

overlay_icon_name(i) == name_or_default(i.options.overlay)

overlay_icon_pixmap(i) == pixmaps_or_default(i.options.overlay)

attention_icon_name(i) == name_or_default(i.options.attention.icon)

attention_icon_pixmap(i) == pixmaps_or_default(i.options.attention.icon)

attention_movie_name(i) == i.options.attention.movie_name

tooltip(i) == i.options.tooltip

item_is_menu(i) == i.options.is_menu

\* self.menu.clone().unwrap_or_default()
menu_path(i) == IF i.menu = None THEN DefaultPath ELSE i.menu[1]

Properties ==
    {"Category", "Id", "Title", "Status", "WindowId", "IconThemePath",
     "IconName", "IconPixmap", "OverlayIconName", "OverlayIconPixmap",
     "AttentionIconName", "AttentionIconPixmap", "AttentionMovieName",
     "ToolTip", "ItemIsMenu", "Menu"}

\* the reply to a read of property p, as the #[zbus(property)] getters give it
GetProperty(p, i) ==
    CASE p = "Category"            -> category(i)
      [] p = "Id"                  -> id(i)
      [] p = "Title"               -> title(i)
      [] p = "Status"              -> status(i)
      [] p = "WindowId"            -> window_id(i)
      [] p = "IconThemePath"       -> icon_theme_path(i)
      [] p = "IconName"            -> icon_name(i)
      [] p = "IconPixmap"          -> icon_pixmap(i)
      [] p = "OverlayIconName"     -> overlay_icon_name(i)
      [] p = "OverlayIconPixmap"   -> overlay_icon_pixmap(i)
      [] p = "AttentionIconName"   -> attention_icon_name(i)
      [] p = "AttentionIconPixmap" -> attention_icon_pixmap(i)
      [] p = "AttentionMovieName"  -> attention_movie_name(i)
      [] p = "ToolTip"             -> tooltip(i)
      [] p = "ItemIsMenu"          -> item_is_menu(i)
      [] p = "Menu"                -> menu_path(i)

-----------------------------------------------------------------------------
(* The application's setters, item.rs lines 468-541 *)

Setters ==
    {"set_title", "set_icon", "set_overlay", "set_attention", "set_tooltip",
     "set_tooltip_title", "set_tooltip_description", "set_status",
     "set_category"}

\* the values the application passes to the setters
Strs == {"A", "B"}

Pm == Pixmap(1, 1, <<255>>)

Icons == {IconName("i"), IconPixmaps(<<Pm>>)}

ToolTips == {ToolTip(IconName("i"), "A", "A"), ToolTip(IconPixmaps(<<Pm>>), "B", "B")}

Attentions == {Attention(IconPixmaps(<<Pm>>), "m")}

SetterArgs(op) ==
    CASE op = "set_title"               -> Strs
      [] op = "set_icon"                -> Icons
      [] op = "set_overlay"             -> {IconName("o")}
      [] op = "set_attention"           -> Attentions
      [] op = "set_tooltip"             -> ToolTips
      [] op = "set_tooltip_title"       -> Strs
      [] op = "set_tooltip_description" -> Strs
      [] op = "set_status"              -> Statuses \ {"Status::Active"}
      [] op = "set_category"            -> {"Category::Communications", "Category::Hardware"}

\* a faulty variant of WriteOptions: set_tooltip_title replaces the whole tooltip
WriteOptionsReplacingToolTip(op, arg, o) ==
    CASE op = "set_title"               -> [o EXCEPT !.title = arg]
      [] op = "set_icon"                -> [o EXCEPT !.icon = arg]
      [] op = "set_overlay"             -> [o EXCEPT !.overlay = arg]
      [] op = "set_attention"           -> [o EXCEPT !.attention = arg]
      [] op = "set_tooltip"             -> [o EXCEPT !.tooltip = arg]
      [] op = "set_tooltip_title"       -> [o EXCEPT !.tooltip = ToolTip(IconDefault, arg, "")]
      [] op = "set_tooltip_description" -> [o EXCEPT !.tooltip.description = arg]
      [] op = "set_status"              -> [o EXCEPT !.status = arg]
      [] op = "set_category"            -> [o EXCEPT !.category = arg]

\* a faulty variant of WriteOptions: set_title writes the tooltip's title as well
WriteOptionsTitleIntoToolTip(op, arg, o) ==
    CASE op = "set_title"               -> [o EXCEPT !.title = arg, !.tooltip.title = arg]
      [] op = "set_icon"                -> [o EXCEPT !.icon = arg]
      [] op = "set_overlay"             -> [o EXCEPT !.overlay = arg]
      [] op = "set_attention"           -> [o EXCEPT !.attention = arg]
      [] op = "set_tooltip"             -> [o EXCEPT !.tooltip = arg]
      [] op = "set_tooltip_title"       -> [o EXCEPT !.tooltip.title = arg]
      [] op = "set_tooltip_description" -> [o EXCEPT !.tooltip.description = arg]
      [] op = "set_status"              -> [o EXCEPT !.status = arg]
      [] op = "set_category"            -> [o EXCEPT !.category = arg]

\* a faulty variant of WriteOptions: set_tooltip keeps the icon of the old tooltip
WriteOptionsMergingToolTip(op, arg, o) ==
    CASE op = "set_title"               -> [o EXCEPT !.title = arg]
      [] op = "set_icon"                -> [o EXCEPT !.icon = arg]
      [] op = "set_overlay"             -> [o EXCEPT !.overlay = arg]
      [] op = "set_attention"           -> [o EXCEPT !.attention = arg]
      [] op = "set_tooltip"             -> [o EXCEPT !.tooltip.title = arg.title,
                                                     !.tooltip.description = arg.description]
      [] op = "set_tooltip_title"       -> [o EXCEPT !.tooltip.title = arg]
      [] op = "set_tooltip_description" -> [o EXCEPT !.tooltip.description = arg]
      [] op = "set_status"              -> [o EXCEPT !.status = arg]
      [] op = "set_category"            -> [o EXCEPT !.category = arg]

\* the assignment each setter makes to iface.options while it holds the lock
WriteOptions(op, arg, o) ==
    CASE op = "set_title"               -> [o EXCEPT !.title = arg]
      [] op = "set_icon"                -> [o EXCEPT !.icon = arg]
      [] op = "set_overlay"             -> [o EXCEPT !.overlay = arg]
      [] op = "set_attention"           -> [o EXCEPT !.attention = arg]
      [] op = "set_tooltip"             -> [o EXCEPT !.tooltip = arg]
      [] op = "set_tooltip_title"       -> [o EXCEPT !.tooltip.title = arg]
      [] op = "set_tooltip_description" -> [o EXCEPT !.tooltip.description = arg]
      [] op = "set_status"              -> [o EXCEPT !.status = arg]
      [] op = "set_category"            -> [o EXCEPT !.category = arg]

Signal(name, args) == [name |-> name, args |-> args]

\* the signal each setter emits after its write: iface.new_*(cx, ..)
SignalOf(op, arg) ==
    CASE op = "set_title"               -> Signal("NewTitle", <<>>)
      [] op = "set_icon"                -> Signal("NewIcon", <<>>)
      [] op = "set_overlay"             -> Signal("NewIcon", <<>>)
      [] op = "set_attention"           -> Signal("NewIcon", <<>>)
      [] op = "set_tooltip"             -> Signal("NewToolTip", <<>>)
      [] op = "set_tooltip_title"       -> Signal("NewToolTip", <<>>)
      [] op = "set_tooltip_description" -> Signal("NewToolTip", <<>>)
      [] op = "set_status"              -> Signal("NewStatus", <<StatusToString(arg)>>)
      [] op = "set_category"            -> Signal("NewStatus", <<CategoryToString(arg)>>)

NoSignal == [name |-> "none", args |-> <<>>, by |-> "none", locked |-> FALSE]

\* #[zbus(signal, name = "LayoutUpdated")] layout_updated(cx, revision, parent):
\* the signal the menu interface declares, dbusmenu.rs lines 135-141
layout_updated(revision, parent) ==
    [name |-> "LayoutUpdated", args |-> <<revision, parent>>, by |-> "menu",
     locked |-> FALSE]

\* a faulty variant of HandlerSignal: the menu announces its layout when it is
\* asked whether a node is about to show
HandlerSignalLayoutUpdated(handler) ==
    IF handler = "AboutToShow" THEN layout_updated(1, 0) ELSE NoSignal

\* a faulty variant of HandlerSignal: a write of the property announces a title
HandlerSignalOnSet(handler) ==
    IF handler = "Set"
    THEN [name |-> "NewTitle", args |-> <<>>, by |-> handler, locked |-> TRUE]
    ELSE NoSignal

\* the item signal a handler other than a setter emits: the property
\* getters, the property's bus setter, the inbound methods, the on_*
\* registrations, the menu's methods and process_events contain no call of
\* new_title .. new_status, and none of layout_updated
HandlerSignal(handler) == NoSignal

\* a faulty variant of SetterResult: the error of the emission is dropped
SetterResultIgnoringError(ok) == "Ok"

\* iface.new_*(cx, ..).await?; Ok(()): what the setter returns when the
\* emission succeeded (ok) or failed
SetterResult(ok) == IF ok THEN "Ok" ELSE "Err"

NoCall == [method |-> "none"]

Idle == [pc |-> "idle"]

NoTx == [active |-> FALSE]

NoSnap == [taken |-> FALSE]

\* an object path at which the connection serves no interface
NotServed == [served |-> FALSE]

Served(m) == m # NotServed

-----------------------------------------------------------------------------
(* The menu tree and its wire form, dbusmenu.rs lines 13-86 *)

Submenu(i, icon, label, children) ==
    [id |-> i, icon_name |-> icon, label |-> label, children |-> children]

\* pub struct Menu { children }
Menu(children) == [children |-> children]

\* HashMap<String, Value>: a function from the keys present to their values
EmptyMap == [k \in {} |-> ""]

\* HashMap::insert
Insert(m, k, v) == [x \in (DOMAIN m) \cup {k} |-> IF x = k THEN v ELSE m[x]]

LayoutItem(i, properties, children) ==
    [id |-> i, properties |-> properties, children |-> children]

\* #[derive(Default)] DBusMenuLayoutItem
LayoutItemDefault == LayoutItem(0, EmptyMap, <<>>)

\* a faulty variant of FromSubmenu: the children are pushed at the front
RECURSIVE FromSubmenuReversed(_)
FromSubmenuReversed(value) ==
    LET p0 == EmptyMap
        p1 == IF value.icon_name # None
              THEN Insert(p0, "icon-name", value.icon_name[1]) ELSE p0
        p2 == IF value.label # None
              THEN Insert(p1, "label", value.label[1]) ELSE p1
        n  == Len(value.children)
    IN  IF value.children # <<>>
        THEN LayoutItem(value.id,
                        Insert(p2, "children-display", "submenu"),
                        [k \in 1..n |->
                            FromSubmenuReversed(value.children[n + 1 - k])])
        ELSE LayoutItem(value.id, p2, <<>>)

\* a faulty variant of FromSubmenu: children-display is inserted for every node
RECURSIVE FromSubmenuAlwaysDisplay(_)
FromSubmenuAlwaysDisplay(value) ==
    LET p0 == EmptyMap
        p1 == IF value.icon_name # None
              THEN Insert(p0, "icon-name", value.icon_name[1]) ELSE p0
        p2 == IF value.label # None
              THEN Insert(p1, "label", value.label[1]) ELSE p1
    IN  LayoutItem(value.id,
                   Insert(p2, "children-display", "submenu"),
                   [k \in 1..Len(value.children) |->
                       FromSubmenuAlwaysDisplay(value.children[k])])

\* impl From<Submenu> for DBusMenuLayoutItem
RECURSIVE FromSubmenu(_)
FromSubmenu(value) ==
    LET p0 == EmptyMap
        p1 == IF value.icon_name # None
              THEN Insert(p0, "icon-name", value.icon_name[1]) ELSE p0
        p2 == IF value.label # None
              THEN Insert(p1, "label", value.label[1]) ELSE p1
    IN  IF value.children # <<>>
        THEN LayoutItem(value.id,
                        Insert(p2, "children-display", "submenu"),
                        [k \in 1..Len(value.children) |->
                            FromSubmenu(value.children[k])])
        ELSE LayoutItem(value.id, p2, <<>>)

\* a faulty variant of get_layout: recursion_depth 0 returns the root without children
get_layout_depth0(m, parent_id, recursion_depth, property_names) ==
    IF m.menu.children # <<>> /\ recursion_depth # 0
    THEN <<0, LayoutItem(0, Insert(EmptyMap, "children-display", "submenu"),
                         [k \in 1..Len(m.menu.children) |->
                             FromSubmenu(m.menu.children[k])])>>
    ELSE <<0, LayoutItemDefault>>

\* a faulty variant of get_layout: the root is the default item over the children
get_layout_plain_root(m, parent_id, recursion_depth, property_names) ==
    <<0, LayoutItem(0, EmptyMap,
                    [k \in 1..Len(m.menu.children) |->
                        FromSubmenu(m.menu.children[k])])>>

\* DBusMenuInterface::get_layout: (revision, layout)
get_layout(m, parent_id, recursion_depth, property_names) ==
    IF m.menu.children # <<>>
    THEN <<0, LayoutItem(0, Insert(EmptyMap, "children-display", "submenu"),
                         [k \in 1..Len(m.menu.children) |->
                             FromSubmenu(m.menu.children[k])])>>
    ELSE <<0, LayoutItemDefault>>

\* a faulty variant of about_to_show: a node of the menu is about to show
about_to_show_known(m, i) == i > 0

\* DBusMenuInterface::about_to_show
about_to_show(m, i) == FALSE

-----------------------------------------------------------------------------
(* Events and the channel, item.rs lines 362-369 and 400 *)

\* enum StatusNotifierItemEvents: a variant is the pair of its name and fields
Activate(x, y)          == <<"Activate", <<x, y>>>>
SecondaryActivate(x, y) == <<"SecondaryActivate", <<x, y>>>>
XdgActivationToken(t)   == <<"XdgActivationToken", <<t>>>>
Scroll(d, o)            == <<"Scroll", <<d, o>>>>
\* MenuEvent(DBusMenuEvents::MenuClick(id))
MenuClick(i)            == <<"MenuEvent", <<"MenuClick", i>>>>

\* Sender::send: Ok(()) while the receiver exists, Err(SendError) after
SendResult(alive) == IF alive THEN "Ok" ELSE "Err"

\* a faulty variant of ChannelAfter: a message is put at the head of the channel
ChannelAfterLifo(q, alive, evs) == IF alive THEN evs \o q ELSE q

\* the channel after the messages evs were sent into it
ChannelAfter(q, alive, evs) == IF alive THEN q \o evs ELSE q

\* a faulty variant of event_sends: the event id is matched without regard to case
event_sends_nocase(m, i, event_id) ==
    IF event_id \in {"clicked", "Clicked"} /\ m.event_sender # None
    THEN <<MenuClick(i)>> ELSE <<>>

\* DBusMenuInterface::event: the messages it passes to sender.send
event_sends(m, i, event_id) ==
    IF event_id = "clicked"
    THEN IF m.event_sender # None THEN <<MenuClick(i)>> ELSE <<>>
    ELSE <<>>

\* a faulty variant of HandlerOutcome: the result of send is unwrapped
HandlerOutcomeUnwrap(sendres) == IF "Err" \in sendres THEN "panic" ELSE "ok"

\* `let _ = tx.send(..)`: the results of the sends are discarded
HandlerOutcome(sendres) == "ok"

-----------------------------------------------------------------------------
(* Callbacks and the inbound methods, item.rs lines 198-205, 301-334, 415-438 *)

Methods ==
    {"ContextMenu", "Activate", "SecondaryActivate", "Scroll",
     "ProvideXdgActivationToken"}

\* the callback slot each inbound method reads
SlotOf(method) ==
    CASE method = "ContextMenu"               -> "on_context_menu"
      [] method = "Activate"                  -> "on_activate"
      [] method = "SecondaryActivate"         -> "on_secondary_activate"
      [] method = "Scroll"                    -> "on_scroll"
      [] method = "ProvideXdgActivationToken" -> "on_provide_xdg_activation_token"

Slots == {SlotOf(m) : m \in Methods}

XY == {<<0, 2>>, <<2, 0 - 1>>}

Tokens == {"tok"}

\* the arguments a bus client passes to each inbound method
MethodArgs(method) ==
    CASE method = "ContextMenu"               -> XY
      [] method = "Activate"                  -> XY
      [] method = "SecondaryActivate"         -> {<<2, 0>>}
      [] method = "Scroll"                    -> {<<0 - 1, "vertical">>}
      [] method = "ProvideXdgActivationToken" -> {<<t>> : t \in Tokens}

\* A closure is named by what it does: the four closures StatusNotifierItem::new
\* installs forward into the channel, a closure of the application ("app")
\* does not touch the state of this component.
ForwardClosure(slot) ==
    CASE slot = "on_activate"                     -> "forward_activate"
      [] slot = "on_secondary_activate"           -> "forward_secondary_activate"
      [] slot = "on_scroll"                       -> "forward_scroll"
      [] slot = "on_provide_xdg_activation_token" -> "forward_xdg_activation_token"

\* the slots StatusNotifierItem::new fills, in the order it fills them
ForwardedSlots ==
    <<"on_activate", "on_secondary_activate", "on_scroll",
      "on_provide_xdg_activation_token">>

\* new has installed its last closure: it returns Ok(this), and only then has
\* the application an item to call and a source to poll or drop
Constructed(i) ==
    /\ Served(i)
    /\ i.callbacks.on_provide_xdg_activation_token # None

\* the callbacks after StatusNotifierItem::new has returned
CallbacksAfterNew ==
    [on_context_menu                 |-> None,
     on_activate                     |-> Some(ForwardClosure("on_activate")),
     on_secondary_activate           |-> Some(ForwardClosure("on_secondary_activate")),
     on_scroll                       |-> Some(ForwardClosure("on_scroll")),
     on_provide_xdg_activation_token |->
         Some(ForwardClosure("on_provide_xdg_activation_token"))]

\* the messages a closure passes to tx.send when it is run with args
ClosureSends(closure, args) ==
    CASE closure = "forward_activate"             -> <<Activate(args[1], args[2])>>
      [] closure = "forward_secondary_activate"   -> <<SecondaryActivate(args[1], args[2])>>
      [] closure = "forward_scroll"               -> <<Scroll(args[1], args[2])>>
      [] closure = "forward_xdg_activation_token" -> <<XdgActivationToken(args[1])>>
      [] closure = "app"                          -> <<>>

\* a faulty variant of Invocations: the callback is run a second time
InvocationsTwice(slotValue, args) ==
    IF slotValue = None THEN <<>>
    ELSE <<[closure |-> slotValue[1], args |-> args],
           [closure |-> slotValue[1], args |-> args]>>

\* self.callbacks.<slot>.as_ref().map(move |f| f(args)): the runs of the callback
Invocations(slotValue, args) ==
    IF slotValue = None THEN <<>>
    ELSE <<[closure |-> slotValue[1], args |-> args]>>

\* every message the runs in inv pass to tx.send, in order
RECURSIVE SendsOf(_)
SendsOf(inv) ==
    IF inv = <<>> THEN <<>>
    ELSE ClosureSends(inv[1].closure, inv[1].args) \o SendsOf(Tail(inv))

-----------------------------------------------------------------------------
(* Actions of the application: the setters, item.rs lines 468-541 *)

\* let mut iface = self.iface_ref.get_mut().await; iface.options.<field> = ..
\* The write lock is taken and the field written; the call then awaits the
\* emission of its signal with the guard still alive.
LockAndWrite(op, arg) ==
    /\ app.pc = "idle"
    /\ lock = "free"
    /\ lock' = "write"
    /\ iface' = [iface EXCEPT !.options = WriteOptions(op, arg, @)]
    /\ app' = [pc |-> "emit", op |-> op, arg |-> arg, sig |-> SignalOf(op, arg),
               res |-> "pending"]
    /\ emitted' = NoSignal
    /\ call' = NoCall
    /\ UNCHANGED <<snap, bridgeVars, menuIface, tray, ctor, task>>

\* a setter call of the application, up to its await of the signal
SetterCall ==
    /\ Constructed(iface)
    /\ ~tx.active
    /\ \E op \in Setters : \E arg \in SetterArgs(op) : LockAndWrite(op, arg)
    /\ UNCHANGED tx

\* iface.new_*(cx, ..).await: the signal goes out on the connection, or the
\* connection reports an error
SetterEmit ==
    /\ app.pc = "emit"
    /\ \E ok \in BOOLEAN :
          /\ emitted' = IF ok
                        THEN [name |-> app.sig.name, args |-> app.sig.args,
                              by |-> app.op, locked |-> (lock = "write")]
                        ELSE NoSignal
          /\ app' = [app EXCEPT !.pc = "ret", !.res = SetterResult(ok)]
    /\ call' = NoCall
    /\ UNCHANGED <<iface, lock, tx, snap, bridgeVars, menuIface, tray, ctor, task>>

\* `?` / Ok(()): the call returns app.res and the guard is dropped
SetterReturn ==
    /\ app.pc = "ret"
    /\ lock' = "free"
    /\ app' = Idle
    /\ emitted' = NoSignal
    /\ call' = NoCall
    /\ UNCHANGED <<iface, tx, snap, bridgeVars, menuIface, tray, ctor, task>>

\* this.on_activate(..).await .. this.on_provide_xdg_activation_token(..).await
\* in StatusNotifierItem::new, item.rs lines 415-438: the next of the four
\* forwarding closures is installed, on an interface that is already served
InstallForwarder ==
    /\ ctor.pc = "hooks"
    /\ ~Constructed(iface)
    /\ lock = "free"
    /\ \E k \in 1..Len(ForwardedSlots) :
          /\ iface.callbacks[ForwardedSlots[k]] = None
          /\ \A j \in 1..(k - 1) : iface.callbacks[ForwardedSlots[j]] # None
          /\ iface' = [iface EXCEPT !.callbacks[ForwardedSlots[k]] =
                                        Some(ForwardClosure(ForwardedSlots[k]))]
    /\ emitted' = HandlerSignal("on_callback")
    /\ call' = NoCall
    /\ UNCHANGED <<lock, app, tx, snap, bridgeVars, menuIface, tray, ctor, task>>

\* on_context_menu .. on_provide_xdg_activation_token, item.rs lines 443-466:
\* the application installs a closure of its own in a slot
RegisterCallback ==
    /\ Constructed(iface)
    /\ app.pc = "idle"
    /\ lock = "free"
    /\ ~tx.active
    /\ \E slot \in Slots :
          iface' = [iface EXCEPT !.callbacks[slot] = Some("app")]
    /\ emitted' = HandlerSignal("on_callback")
    /\ call' = NoCall
    /\ UNCHANGED <<lock, app, tx, snap, bridgeVars, menuIface, tray, ctor, task>>

-----------------------------------------------------------------------------
(* A title and a tooltip updated together, examples/tray.rs lines 178-192:   *)
(* the item has one setter per field, so the update is two setter calls      *)

TitleAndToolTip(i) == [title |-> title(i), tooltip |-> tooltip(i)]

\* the application decides on a new title and a new tooltip
BeginUpdate ==
    /\ Constructed(iface)
    /\ ~tx.active
    /\ app.pc = "idle"
    /\ \E t \in Strs, tip \in ToolTips :
          /\ t # title(iface)
          /\ tip # tooltip(iface)
          /\ \E todo \in {<<<<"set_title", t>>, <<"set_tooltip", tip>>>>,
                          <<<<"set_tooltip", tip>>, <<"set_title", t>>>>} :
                tx' = [active |-> TRUE, old |-> TitleAndToolTip(iface),
                       new |-> [title |-> t, tooltip |-> tip], todo |-> todo]
    /\ emitted' = NoSignal
    /\ call' = NoCall
    /\ UNCHANGED <<itemVars, snap, bridgeVars, menuIface, tray, ctor, task>>

\* the next setter call of the update, up to its await of the signal
UpdateCall ==
    /\ tx.active
    /\ tx.todo # <<>>
    /\ LockAndWrite(tx.todo[1][1], tx.todo[1][2])
    /\ tx' = [tx EXCEPT !.todo = Tail(@)]

\* both calls have returned
EndUpdate ==
    /\ tx.active
    /\ tx.todo = <<>>
    /\ app.pc = "idle"
    /\ tx' = NoTx
    /\ emitted' = NoSignal
    /\ call' = NoCall
    /\ UNCHANGED <<itemVars, snap, bridgeVars, menuIface, tray, ctor, task>>

\* a bus client reads Title and ToolTip with no write between the two reads
ReadTitleAndToolTip ==
    /\ Served(iface)
    /\ lock = "free"
    /\ snap' = [taken |-> TRUE, title |-> title(iface), tooltip |-> tooltip(iface),
                old |-> IF tx.active THEN tx.old ELSE TitleAndToolTip(iface),
                new |-> IF tx.active THEN tx.new ELSE TitleAndToolTip(iface)]
    /\ emitted' = HandlerSignal("Get")
    /\ call' = [method |-> "Get", args |-> <<"Title", "ToolTip">>,
                ret |-> <<title(iface), tooltip(iface)>>,
                outcome |-> "ok", alive |-> rxAlive]
    /\ UNCHANGED <<itemVars, tx, bridgeVars, menuIface, tray, ctor, task>>

-----------------------------------------------------------------------------
(* Actions of bus clients on the item, item.rs lines 216-334 *)

\* a property read: a projection of the interface under the read lock
ReadProperty ==
    /\ Served(iface)
    /\ lock = "free"
    /\ \E p \in Properties :
          call' = [method |-> "Get", args |-> <<p>>, ret |-> GetProperty(p, iface),
                   outcome |-> "ok", alive |-> rxAlive]
    /\ emitted' = HandlerSignal("Get")
    /\ UNCHANGED <<itemVars, tx, snap, bridgeVars, menuIface, tray, ctor, task>>

\* a write of the property "Category", item.rs lines 296-299: the setter the
\* interface declares under that name is set_title, which assigns
\* options.title under the write lock and emits none of the item's signals
BusSetCategory ==
    /\ Served(iface)
    /\ lock = "free"
    /\ \E v \in Strs :
          /\ iface' = [iface EXCEPT !.options.title = v]
          /\ call' = [method |-> "Set", args |-> <<"Category", v>>,
                      outcome |-> "ok", alive |-> rxAlive]
    /\ emitted' = HandlerSignal("Set")
    /\ UNCHANGED <<lock, app, tx, snap, bridgeVars, menuIface, tray, ctor, task>>

\* ContextMenu, Activate, SecondaryActivate, Scroll, ProvideXdgActivationToken:
\* the slot's callback, when there is one, is run with the call's arguments
InboundMethod ==
    /\ Served(iface)
    /\ lock = "free"
    /\ \E method \in Methods : \E args \in MethodArgs(method) :
          LET inv  == Invocations(iface.callbacks[SlotOf(method)], args)
              evs  == SendsOf(inv)
              res  == [k \in 1..Len(evs) |-> SendResult(rxAlive)]
          IN  /\ rxAlive => Len(evs) <= budget
              /\ budget' = IF rxAlive THEN budget - Len(evs) ELSE budget
              /\ queue' = ChannelAfter(queue, rxAlive, evs)
              /\ sent' = IF rxAlive THEN sent \o evs ELSE sent
              /\ call' = [method |-> method, args |-> args, invoked |-> inv,
                          sendres |-> {res[k] : k \in 1..Len(res)},
                          outcome |-> HandlerOutcome({res[k] : k \in 1..Len(res)}),
                          alive |-> rxAlive]
    /\ emitted' = HandlerSignal("Inbound")
    /\ UNCHANGED <<itemVars, tx, snap, rxAlive, delivered, post, menuIface, tray, ctor, task>>

-----------------------------------------------------------------------------
(* Actions of bus clients on the menu, dbusmenu.rs lines 95-133 *)

MenuIds == {0 - 1, 2}

PropertyNames == {<<>>, <<"label">>}

EventIds == {"clicked", "Clicked", "hovered"}

GetLayout ==
    /\ Served(menuIface)
    /\ \E parent_id \in Ints, recursion_depth \in Ints,
          property_names \in PropertyNames :
          call' = [method |-> "GetLayout",
                   args |-> <<parent_id, recursion_depth, property_names>>,
                   ret |-> get_layout(menuIface, parent_id, recursion_depth,
                                      property_names),
                   outcome |-> "ok", alive |-> rxAlive]
    /\ emitted' = HandlerSignal("GetLayout")
    /\ UNCHANGED <<itemVars, tx, snap, bridgeVars, menuIface, tray, ctor, task>>

\* a faulty variant of Event: the handler also empties the menu it serves
EventClearingMenu ==
    /\ Served(menuIface)
    /\ \E i \in MenuIds, event_id \in EventIds :
          LET evs == event_sends(menuIface, i, event_id)
              res == {SendResult(rxAlive) : k \in 1..Len(evs)}
          IN  /\ rxAlive => Len(evs) <= budget
              /\ budget' = IF rxAlive THEN budget - Len(evs) ELSE budget
              /\ queue' = ChannelAfter(queue, rxAlive, evs)
              /\ sent' = IF rxAlive THEN sent \o evs ELSE sent
              /\ call' = [method |-> "Event", args |-> <<i, event_id>>,
                          sendres |-> res, outcome |-> HandlerOutcome(res),
                          alive |-> rxAlive]
    /\ menuIface' = [menuIface EXCEPT !.menu = Menu(<<>>)]
    /\ emitted' = HandlerSignal("Event")
    /\ UNCHANGED <<itemVars, tx, snap, rxAlive, delivered, post, tray, ctor, task>>

Event ==
    /\ Served(menuIface)
    /\ \E i \in MenuIds, event_id \in EventIds :
          LET evs == event_sends(menuIface, i, event_id)
              res == {SendResult(rxAlive) : k \in 1..Len(evs)}
          IN  /\ rxAlive => Len(evs) <= budget
              /\ budget' = IF rxAlive THEN budget - Len(evs) ELSE budget
              /\ queue' = ChannelAfter(queue, rxAlive, evs)
              /\ sent' = IF rxAlive THEN sent \o evs ELSE sent
              /\ call' = [method |-> "Event", args |-> <<i, event_id>>,
                          sendres |-> res, outcome |-> HandlerOutcome(res),
                          alive |-> rxAlive]
    /\ emitted' = HandlerSignal("Event")
    /\ UNCHANGED <<itemVars, tx, snap, rxAlive, delivered, post, menuIface, tray, ctor, task>>

AboutToShow ==
    /\ Served(menuIface)
    /\ \E i \in Ints :
          call' = [method |-> "AboutToShow", args |-> <<i>>,
                   ret |-> about_to_show(menuIface, i),
                   outcome |-> "ok", alive |-> rxAlive]
    /\ emitted' = HandlerSignal("AboutToShow")
    /\ UNCHANGED <<itemVars, tx, snap, bridgeVars, menuIface, tray, ctor, task>>

-----------------------------------------------------------------------------
(* Actions of the consumer, item.rs lines 543-577 *)

\* calloop::channel::Event, as Channel::process_events hands it to the closure
\* of line 559: a message, or the notice that every sender is gone
Msg(m) == <<"Msg", m>>

Closed == <<"Closed", <<>>>>

\* what the channel hands over in one call: every message it holds, in order,
\* then Closed when no sender is left
ChannelEvents(q, senders) ==
    [k \in 1..Len(q) |-> Msg(q[k])] \o (IF senders THEN <<>> ELSE <<Closed>>)

\* a faulty variant of CallbackRuns: the callback is run for the first event only
CallbackRunsFirstOnly(evts) ==
    IF evts = <<>> THEN <<>> ELSE <<evts[1][2]>>

\* |evt, _| if let Event::Msg(msg) = evt { (callback)(msg, &mut ()) }:
\* the arguments of the runs of the caller's callback, in order
RECURSIVE CallbackRuns(_)
CallbackRuns(evts) ==
    IF evts = <<>> THEN <<>>
    ELSE (IF evts[1][1] = "Msg" THEN <<evts[1][2]>> ELSE <<>>)
         \o CallbackRuns(Tail(evts))

\* `..)?; Ok(PostAction::Continue)`: an error of the channel is returned as
\* it is, and every other call returns Continue
ProcessEventsResult(ok) == IF ok THEN "Continue" ELSE "Err"

\* EventSource::process_events. The item holds a sender of its own (line 359),
\* so the channel is never closed while the item is polled. A call the channel
\* completes hands over every message; how many it handed over before an
\* error is the channel's own business, and any number is allowed here.
ProcessEvents ==
    /\ Constructed(iface)
    /\ rxAlive
    /\ \E ok \in BOOLEAN :
       \E taken \in (IF ok THEN {Len(queue)} ELSE 0..Len(queue)) :
          /\ delivered' = delivered
                 \o CallbackRuns(ChannelEvents(SubSeq(queue, 1, taken), TRUE))
          /\ queue' = SubSeq(queue, taken + 1, Len(queue))
          /\ post' = ProcessEventsResult(ok)
          /\ call' = [method |-> "process_events", runs |-> taken]
    /\ emitted' = HandlerSignal("process_events")
    /\ UNCHANGED <<itemVars, tx, snap, rxAlive, sent, budget, menuIface, tray, ctor, task>>

\* the receiving half is dropped: what it still held is dropped with it
DropReceiver ==
    /\ Constructed(iface)
    /\ rxAlive
    /\ rxAlive' = FALSE
    /\ queue' = <<>>
    /\ emitted' = NoSignal
    /\ call' = NoCall
    /\ UNCHANGED <<itemVars, tx, snap, sent, delivered, post, budget, menuIface, tray, ctor, task>>

-----------------------------------------------------------------------------
(* The bus executor running one inbound handler, send by send *)

\* a faulty variant of SendReady: a channel of one place, whose send waits
\* while the place is taken
SendReadyBounded(q, alive) == ~alive \/ Len(q) < 1

\* channel::channel() of line 400 has no capacity: Sender::send returns at
\* once, whatever the channel holds and whether or not a receiver is left
SendReady(q, alive) == TRUE

\* The handler in progress keeps its arguments under the method's name.
\* The executor starts ContextMenu, Activate, SecondaryActivate, Scroll or
\* ProvideXdgActivationToken: the slot is read and its callback, when there
\* is one, is about to run
BeginInbound ==
    /\ Served(iface)
    /\ lock = "free"
    /\ task = Idle
    /\ \E method \in Methods : \E args \in MethodArgs(method) :
          LET evs == SendsOf(Invocations(iface.callbacks[SlotOf(method)], args))
          IN  /\ rxAlive => Len(evs) <= budget
              /\ budget' = IF rxAlive THEN budget - Len(evs) ELSE budget
              /\ task' = [pc |-> "run", method |-> method,
                          args |-> <<method, args>>, todo |-> evs,
                          sendres |-> {}]
    /\ call' = NoCall
    /\ emitted' = HandlerSignal("Inbound")
    /\ UNCHANGED <<itemVars, tx, snap, queue, rxAlive, sent, delivered, post,
                   menuIface, tray, ctor>>

\* the executor starts the menu's Event
BeginEvent ==
    /\ Served(menuIface)
    /\ task = Idle
    /\ \E i \in MenuIds, event_id \in EventIds :
          LET evs == event_sends(menuIface, i, event_id)
          IN  /\ rxAlive => Len(evs) <= budget
              /\ budget' = IF rxAlive THEN budget - Len(evs) ELSE budget
              /\ task' = [pc |-> "run", method |-> "Event",
                          args |-> <<"Event", <<i, event_id>>>>, todo |-> evs,
                          sendres |-> {}]
    /\ call' = NoCall
    /\ emitted' = HandlerSignal("Event")
    /\ UNCHANGED <<itemVars, tx, snap, queue, rxAlive, sent, delivered, post,
                   menuIface, tray, ctor>>

\* let _ = tx.send(..): the running handler passes its next message to send
HandlerSend ==
    /\ task.pc = "run"
    /\ task.todo # <<>>
    /\ SendReady(queue, rxAlive)
    /\ queue' = ChannelAfter(queue, rxAlive, <<Head(task.todo)>>)
    /\ sent' = IF rxAlive THEN Append(sent, Head(task.todo)) ELSE sent
    /\ task' = [task EXCEPT !.todo = Tail(@),
                            !.sendres = @ \cup {SendResult(rxAlive)}]
    /\ call' = NoCall
    /\ emitted' = HandlerSignal(task.method)
    /\ UNCHANGED <<itemVars, tx, snap, rxAlive, delivered, post, budget,
                   menuIface, tray, ctor>>

\* the running handler has nothing left to send and returns to the executor
HandlerReturn ==
    /\ task.pc = "run"
    /\ task.todo = <<>>
    /\ task' = Idle
    /\ call' = [method |-> task.method, args |-> task.args[2],
                sendres |-> task.sendres,
                outcome |-> HandlerOutcome(task.sendres), alive |-> rxAlive]
    /\ emitted' = HandlerSignal(task.method)
    /\ UNCHANGED <<itemVars, tx, snap, bridgeVars, menuIface, tray, ctor>>

-----------------------------------------------------------------------------
(* The tray value of the application, tray.rs lines 5-109 *)

\* Tray::new
TrayNew ==
    [tooltip          |-> None,
     title            |-> None,
     icon             |-> None,
     icon_data        |-> None,
     icon_is_template |-> FALSE,
     menu_builder     |-> None,
     visible          |-> TRUE]

TrayBuilders == {"tooltip", "title", "icon", "icon_as_template", "menu", "visible"}

\* the values the application passes to the builder methods
TrayArgs(method) ==
    CASE method = "tooltip"          -> Strs
      [] method = "title"            -> Strs
      [] method = "icon"             -> {"app-icon.png"}
      [] method = "icon_as_template" -> BOOLEAN
      [] method = "menu"             -> {"build_menus"}
      [] method = "visible"          -> BOOLEAN

\* a faulty variant of TrayApply: a new icon discards the rendered icon data
TrayApplyIconClearsData(method, arg, t) ==
    CASE method = "tooltip"          -> [t EXCEPT !.tooltip = Some(arg)]
      [] method = "title"            -> [t EXCEPT !.title = Some(arg)]
      [] method = "icon"             -> [t EXCEPT !.icon = Some(arg), !.icon_data = None]
      [] method = "icon_as_template" -> [t EXCEPT !.icon_is_template = arg]
      [] method = "menu"             -> [t EXCEPT !.menu_builder = Some(arg)]
      [] method = "visible"          -> [t EXCEPT !.visible = arg]

\* the builder methods: each takes self, assigns one field and returns self
TrayApply(method, arg, t) ==
    CASE method = "tooltip"          -> [t EXCEPT !.tooltip = Some(arg)]
      [] method = "title"            -> [t EXCEPT !.title = Some(arg)]
      [] method = "icon"             -> [t EXCEPT !.icon = Some(arg)]
      [] method = "icon_as_template" -> [t EXCEPT !.icon_is_template = arg]
      [] method = "menu"             -> [t EXCEPT !.menu_builder = Some(arg)]
      [] method = "visible"          -> [t EXCEPT !.visible = arg]

\* struct TrayIconData { data, width, height }
TrayIconData(data, width, height) == [data |-> data, width |-> width, height |-> height]

\* the tray of the example: icon, icon_as_template, title, tooltip, menu
ExampleTray ==
    TrayApply("menu", "build_menus",
      TrayApply("tooltip", "This is a tray icon",
        TrayApply("title", "Tray App",
          TrayApply("icon_as_template", FALSE,
            TrayApply("icon", "app-icon.png", TrayNew)))))

\* one builder method applied to the tray
TrayBuild ==
    /\ \E method \in TrayBuilders : \E arg \in TrayArgs(method) :
          /\ tray' = TrayApply(method, arg, tray)
          /\ call' = [method |-> "Tray", builder |-> method, arg |-> <<arg>>]
    /\ emitted' = NoSignal
    /\ UNCHANGED <<itemVars, tx, snap, bridgeVars, menuIface, ctor, task>>

\* Tray::render_icon: when there is an icon it is rendered into icon_data,
\* unless the renderer fails; when there is none nothing is done
RenderIcon ==
    /\ \E ok \in BOOLEAN :
          /\ tray' = IF tray.icon # None /\ ok
                     THEN [tray EXCEPT !.icon_data = Some(TrayIconData(<<255>>, 1, 1))]
                     ELSE tray
          /\ call' = [method |-> "render_icon",
                      ret |-> IF tray.icon # None /\ ~ok THEN "Err" ELSE "Ok"]
    /\ emitted' = NoSignal
    /\ UNCHANGED <<itemVars, tx, snap, bridgeVars, menuIface, ctor, task>>

-----------------------------------------------------------------------------
(* The constructor, item.rs lines 372-441 *)

\* the results of new: none yet, Err(e) from the step that failed, Ok(this)
Pending == <<"pending", "">>

Err(step) == <<"Err", step>>

OkThis == <<"Ok", "this">>

\* the fallible steps of new, each ending in `?`, in program order:
\*   watcher   StatusNotifierWatcher::new().await?
\*   session   zbus::connection::Builder::session()?
\*   name      .name(name.clone())?
\*   serve_at  .serve_at(STATUS_NOTIFIER_ITEM_PATH, iface)?
\*   build     .build().await?
\*   menu      conn.object_server().at(DBUS_MENU_PATH, iface).await?
\*   register  watcher.register_status_notifier_item(name).await?
\*   lookup    conn.object_server().interface(..).await?
NewSteps ==
    <<"watcher", "session", "name", "serve_at", "build", "menu", "register",
      "lookup">>

\* a faulty variant of StepAfter: a step that failed is made again
StepAfterRetry(step, ok, menu) ==
    IF ~ok THEN step
    ELSE CASE step = "watcher"  -> "session"
           [] step = "session"  -> "name"
           [] step = "name"     -> "serve_at"
           [] step = "serve_at" -> "build"
           [] step = "build"    -> IF menu # None THEN "menu" ELSE "register"
           [] step = "menu"     -> "register"
           [] step = "register" -> "lookup"
           [] step = "lookup"   -> "hooks"

\* where new goes on after a step: `?` returns on an error, the menu is
\* served only `if let Some(menu) = menu`
StepAfter(step, ok, menu) ==
    IF ~ok THEN "failed"
    ELSE CASE step = "watcher"  -> "session"
           [] step = "session"  -> "name"
           [] step = "name"     -> "serve_at"
           [] step = "serve_at" -> "build"
           [] step = "build"    -> IF menu # None THEN "menu" ELSE "register"
           [] step = "menu"     -> "register"
           [] step = "register" -> "lookup"
           [] step = "lookup"   -> "hooks"

\* DBusMenuInterface { menu, event_sender: Some(sender.clone()) }
MenuInterface(m) == [menu |-> m, event_sender |-> Some("sender")]

\* StatusNotifierItemInterface { id, options, callbacks, menu: menu_path }
ItemInterfaceWith(options, m, callbacks) ==
    [id        |-> "1",
     callbacks |-> callbacks,
     options   |-> options,
     menu      |-> IF Served(m) THEN Some(DBUS_MENU_PATH) ELSE None]

\* the menu object new serves for its argument menu: Option<Menu>
MenuServedFor(menu) == IF menu = None THEN NotServed ELSE MenuInterface(menu[1])

\* the steps new has passed when it installs its closures
StepsPassed(menu) ==
    IF menu = None
    THEN <<"watcher", "session", "name", "serve_at", "build", "register", "lookup">>
    ELSE NewSteps

\* new called with (options, menu)
CtorCalled(options, menu) ==
    [pc |-> "watcher", options |-> options, menu |-> menu, res |-> Pending,
     tried |-> <<>>]

\* new past its last fallible step
CtorHooks(options, menu) ==
    [pc |-> "hooks", options |-> options, menu |-> menu, res |-> Pending,
     tried |-> StepsPassed(menu)]

\* what new has returned: the error of the step that failed, or the item once
\* the last closure is installed
NewResult(c, i) ==
    IF c.pc = "failed" THEN c.res
    ELSE IF c.pc = "hooks" /\ Constructed(i) THEN OkThis ELSE Pending

\* one fallible step of new. When it fails new returns its error: the locals
\* conn, sender and channel are dropped, and with the connection the objects
\* served on it. When build succeeds the item interface is served and the
\* channel created; when the menu step succeeds the menu is served.
NewStep ==
    /\ ctor.pc \in {NewSteps[k] : k \in 1..Len(NewSteps)}
    /\ \E ok \in BOOLEAN :
          /\ ctor' = [ctor EXCEPT !.pc = StepAfter(ctor.pc, ok, ctor.menu),
                                  !.res = IF ok THEN @ ELSE Err(ctor.pc),
                                  !.tried = Append(@, ctor.pc)]
          /\ iface' = IF ~ok THEN NotServed
                      ELSE IF ctor.pc = "build"
                           THEN ItemInterfaceWith(ctor.options, MenuServedFor(ctor.menu),
                                                  CallbacksDefault)
                           ELSE iface
          /\ menuIface' = IF ~ok THEN NotServed
                          ELSE IF ctor.pc = "menu" THEN MenuServedFor(ctor.menu)
                               ELSE menuIface
          /\ rxAlive' = IF ~ok THEN FALSE
                        ELSE IF ctor.pc = "build" THEN TRUE ELSE rxAlive
          /\ queue' = IF ~ok THEN <<>> ELSE queue
    /\ emitted' = NoSignal
    /\ call' = NoCall
    /\ UNCHANGED <<lock, app, tx, snap, sent, delivered, post, budget, tray,
                   task>>

-----------------------------------------------------------------------------
(* Initial states: the item as StatusNotifierItem::new returns it,           *)
(* item.rs lines 372-441                                                     *)

\* the options of the tray example: a title, a pixmap icon, a tooltip
ExampleOptions ==
    [OptionsDefault EXCEPT !.title = "Tray App",
                           !.icon = IconPixmaps(<<Pm>>),
                           !.tooltip = ToolTip(IconDefault, "This is a tray icon", "")]

Node2 == Submenu(2, None, Some("Toggle Check"), <<>>)

Node3 == Submenu(3, None, Some("Toggle Visible"), <<>>)

\* the menus the application builds before it constructs the item
Menus ==
    {Menu(<<>>),
     Menu(<<Node2, Node3>>),
     Menu(<<Submenu(1, None, None, <<Node2, Node3>>)>>),
     Menu(<<Submenu(5, Some("i"), None, <<>>),
            Submenu(5, None, Some("Submenu"),
                    <<Submenu(6, Some("j"), Some("l"), <<Node3, Node3>>)>>)>>)}

\* the interface when new returns
ItemInterface(options, m) == ItemInterfaceWith(options, m, CallbacksAfterNew)

\* the state in which nothing has been called yet
InitState(i, m, n, alive, t, c) ==
    /\ iface = i
    /\ lock = "free"
    /\ app = Idle
    /\ emitted = NoSignal
    /\ tx = NoTx
    /\ snap = NoSnap
    /\ queue = <<>>
    /\ rxAlive = alive
    /\ sent = <<>>
    /\ delivered = <<>>
    /\ post = "none"
    /\ budget = n
    /\ call = NoCall
    /\ menuIface = m
    /\ tray = t
    /\ ctor = c
    /\ task = Idle

\* new has served interface i and menu object m and is past its last
\* fallible step
InitFrom(i, m, n) ==
    InitState(i, m, n, TRUE, ExampleTray,
              CtorHooks(i.options, IF Served(m) THEN Some(m.menu) ELSE None))

InitWith(options, m, n) == InitFrom(ItemInterface(options, m), m, n)

\* the bridge: bus clients send, the consumer drains or is dropped
Init == InitWith(ExampleOptions, MenuInterface(Menu(<<Node2, Node3>>)), MaxSent)

Next ==
    \/ InboundMethod
    \/ Event
    \/ ProcessEvents
    \/ DropReceiver

Spec == Init /\ [][Next]_vars

\* every call a bus client can make, on every menu, before and after the
\* receiver is dropped
InitBus ==
    \E m \in {NotServed} \cup {MenuInterface(t) : t \in Menus} :
        InitWith(ExampleOptions, m, MaxBusSent)

NextBus ==
    \/ ReadProperty
    \/ InboundMethod
    \/ GetLayout
    \/ Event
    \/ AboutToShow
    \/ ProcessEvents
    \/ DropReceiver

SpecBus == InitBus /\ [][NextBus]_vars

\* the inbound methods against the callbacks: from the point where new has
\* its interface reference (item.rs line 412) and goes on to install its
\* closures, then with the callbacks the application registers
InitCallbacks ==
    InitFrom(ItemInterfaceWith(ExampleOptions, NotServed, CallbacksDefault),
             NotServed, MaxBusSent)

NextCallbacks ==
    \/ InstallForwarder
    \/ RegisterCallback
    \/ InboundMethod
    \/ ProcessEvents

SpecCallbacks == InitCallbacks /\ [][NextCallbacks]_vars

\* the application's setters against property reads
InitItem == InitWith(OptionsDefault, NotServed, 0)

NextItem ==
    \/ SetterCall
    \/ SetterEmit
    \/ SetterReturn
    \/ ReadProperty

SpecItem == InitItem /\ [][NextItem]_vars

\* title and tooltip updated together against reads of both
InitUpdate == InitWith(ExampleOptions, NotServed, 0)

NextUpdate ==
    \/ BeginUpdate
    \/ UpdateCall
    \/ SetterEmit
    \/ SetterReturn
    \/ EndUpdate
    \/ ReadTitleAndToolTip

SpecUpdate == InitUpdate /\ [][NextUpdate]_vars

\* every sequence over S of at most MaxWidth elements
Rows(S) == UNION {[1..n -> S] : n \in 0..MaxWidth}

\* nodes without children: every combination of icon name and label
Leaves ==
    {Submenu(i, icon, label, <<>>) :
        i \in {2, 3}, icon \in {None, Some("i")}, label \in {None, Some("l")}}

\* nodes over rows of leaves
Branches ==
    {Submenu(1, icon, label, row) :
        icon \in {None, Some("j")}, label \in {None, Some("m")},
        row \in Rows({Submenu(2, None, None, <<>>), Submenu(2, None, Some("l"), <<>>),
                      Submenu(3, Some("i"), None, <<>>)})}

\* the menus an application can build: one top-level node of every shape,
\* rows of leaves, and the menus of Menus
LayoutMenus ==
    {Menu(<<n>>) : n \in Leaves \cup Branches} \cup
    {Menu(row) : row \in Rows({Node2, Node3})} \cup Menus

\* the layout serializer: GetLayout, Event and AboutToShow on every menu
InitLayout == \E m \in LayoutMenus : InitWith(ExampleOptions, MenuInterface(m), 0)

NextLayout ==
    \/ GetLayout
    \/ Event
    \/ AboutToShow

SpecLayout == InitLayout /\ [][NextLayout]_vars

\* a setter call on the item as new returned it
FirstSetterCall ==
    /\ Served(iface)
    /\ iface.options = ctor.options
    /\ SetterCall

\* a callback registered on the item as new returned it
FirstRegistration ==
    /\ Served(iface)
    /\ iface.callbacks = CallbacksAfterNew
    /\ RegisterCallback

\* everything that acts on the served item and its menu: a setter call and a
\* registration of the application, its consumer, and the bus clients
InitSignals ==
    InitWith(ExampleOptions, MenuInterface(Menu(<<Node2, Node3>>)), 0)

NextSignals ==
    \/ FirstSetterCall
    \/ SetterEmit
    \/ SetterReturn
    \/ FirstRegistration
    \/ ReadProperty
    \/ BusSetCategory
    \/ InboundMethod
    \/ GetLayout
    \/ Event
    \/ AboutToShow
    \/ ProcessEvents
    \/ DropReceiver

SpecSignals == InitSignals /\ [][NextSignals]_vars

\* the application builds its tray value, starting from Tray::new()
InitTray ==
    InitState(NotServed, NotServed, 0, FALSE, TrayNew, CtorCalled(OptionsDefault, None))

NextTray ==
    \/ TrayBuild
    \/ RenderIcon

SpecTray == InitTray /\ [][NextTray]_vars

\* the arguments the platform passes to new
NewMenus == {None, Some(Menu(<<>>)), Some(Menu(<<Node2, Node3>>))}

\* new from its first line, with the bus calls that reach the objects it has
\* served so far
InitNew ==
    \E options \in {OptionsDefault, ExampleOptions}, menu \in NewMenus :
        InitState(NotServed, NotServed, MaxBusSent, FALSE, ExampleTray,
                  CtorCalled(options, menu))

NextNew ==
    \/ NewStep
    \/ InstallForwarder
    \/ ReadProperty
    \/ InboundMethod
    \/ GetLayout
    \/ Event
    \/ ProcessEvents

SpecNew == InitNew /\ [][NextNew]_vars

\* inbound handlers run send by send on the bus executor, which runs a handler
\* it has started until the handler returns (weak fairness of its steps);
\* nothing obliges the consumer to poll, now or ever
InitRun == InitWith(ExampleOptions, MenuInterface(Menu(<<Node2, Node3>>)), MaxUnpolled)

NextRun ==
    \/ BeginInbound
    \/ BeginEvent
    \/ HandlerSend
    \/ HandlerReturn
    \/ ProcessEvents
    \/ DropReceiver

SpecRun ==
    InitRun /\ [][NextRun]_vars /\ WF_vars(HandlerSend) /\ WF_vars(HandlerReturn)

\* the whole life of one item: new from its first line with the example's
\* options and menu, then the application, its consumer and the bus clients
InitLife ==
    InitState(NotServed, NotServed, 0, FALSE, ExampleTray,
              CtorCalled(ExampleOptions, Some(Menu(<<Node2, Node3>>))))

NextLife ==
    \/ NewStep
    \/ InstallForwarder
    \/ FirstSetterCall
    \/ SetterEmit
    \/ SetterReturn
    \/ FirstRegistration
    \/ ReadProperty
    \/ BusSetCategory
    \/ InboundMethod
    \/ GetLayout
    \/ Event
    \/ AboutToShow
    \/ ProcessEvents
    \/ DropReceiver

SpecLife == InitLife /\ [][NextLife]_vars

-----------------------------------------------------------------------------
(* Claims about the menu's Event method and the bridge *)

\* C1: a menu Event call with event_id "clicked" puts exactly one
\* MenuClick(id) at the tail of the channel (while its receiver exists); a
\* call with any other event_id puts nothing there; both return without error.
C1_EventForwardsClicked ==
    [][call'.method = "Event" =>
          /\ call'.outcome = "ok"
          /\ IF call'.args[2] = "clicked"
             THEN call'.alive =>
                     /\ queue' = Append(queue, MenuClick(call'.args[1]))
                     /\ sent' = Append(sent, MenuClick(call'.args[1]))
             ELSE queue' = queue /\ sent' = sent]_vars

\* a clicked event arrived behind two messages already waiting
C1_Witness ==
    /\ call.method = "Event"
    /\ call.args[2] = "clicked"
    /\ call.alive
    /\ Len(queue) = 3
    /\ queue[3] = MenuClick(call.args[1])
    /\ queue[2] # queue[3]

\* C2: whatever the interleaving of sends and process_events calls, the
\* consumer's callback has received a prefix of the messages sent, in send
\* order, and while the receiver exists the rest is still in the channel:
\* nothing is lost, nothing is duplicated.
C2_FifoDelivery ==
    /\ Len(delivered) <= Len(sent)
    /\ delivered = SubSeq(sent, 1, Len(delivered))
    /\ rxAlive => delivered \o queue = sent

\* two different messages were delivered by one call, a third by a later one
C2_Witness ==
    /\ Len(delivered) = 3
    /\ delivered = sent
    /\ delivered[1] # delivered[2]
    /\ delivered[2] # delivered[3]
    /\ post = "Continue"
    /\ queue = <<>>

\* C3: once the receiving half is dropped, a send made by an inbound handler
\* fails inside the handler only: the handler returns without error, nothing
\* is queued or delivered, and property reads, GetLayout and AboutToShow are
\* still answered, with the replies they gave before.
C3_SendAfterDrop ==
    /\ [](~rxAlive =>
            /\ queue = <<>>
            /\ call.method # "none" => call.outcome = "ok"
            /\ ENABLED ReadProperty
            /\ ENABLED InboundMethod
            /\ Served(menuIface) =>
                  ENABLED GetLayout /\ ENABLED Event /\ ENABLED AboutToShow
            /\ call.method = "Get" =>
                  call.ret = GetProperty(call.args[1], ItemInterface(ExampleOptions, menuIface))
            /\ call.method = "AboutToShow" => call.ret = FALSE)
    /\ [][~rxAlive => queue' = queue /\ delivered' = delivered /\ sent' = sent]_vars

\* a clicked event whose send failed because the receiver was gone
C3_Witness ==
    /\ ~rxAlive
    /\ call.method = "Event"
    /\ call.sendres = {"Err"}
    /\ call.outcome = "ok"

-----------------------------------------------------------------------------
(* Claims about the inbound methods and GetLayout *)

\* C9: an inbound method whose slot holds a callback runs that callback
\* exactly once, with the arguments of the call; one whose slot is empty runs
\* nothing, sends nothing and changes no state; either way it returns without
\* error.
C9_InboundInvokesCallback ==
    [][call'.method \in Methods =>
          LET slotValue == iface.callbacks[SlotOf(call'.method)]
          IN  /\ call'.outcome = "ok"
              /\ iface' = iface /\ lock' = lock /\ app' = app
              /\ IF slotValue = None
                 THEN /\ call'.invoked = <<>>
                      /\ call'.sendres = {}
                      /\ UNCHANGED <<bridgeVars, menuIface, emitted>>
                 ELSE /\ Len(call'.invoked) = 1
                      /\ call'.invoked[1].closure = slotValue[1]
                      /\ call'.invoked[1].args = call'.args]_vars

\* Scroll ran a callback the application had registered in its slot, after
\* an Activate call had been forwarded
C9_Witness ==
    /\ call.method = "Scroll"
    /\ call.args = <<0 - 1, "vertical">>
    /\ iface.callbacks.on_scroll = Some("app")
    /\ Len(call.invoked) = 1
    /\ iface.callbacks.on_context_menu = None
    /\ Len(delivered) = 1

\* every node of a subtree, counted
RECURSIVE CountNodes(_)
CountNodes(node) ==
    LET RECURSIVE Sum(_)
        Sum(k) == IF k = 0 THEN 0 ELSE CountNodes(node.children[k]) + Sum(k - 1)
    IN  1 + Sum(Len(node.children))

\* C10: GetLayout answers every combination of parent_id, recursion_depth
\* and property_names alike: revision 0 and the layout of the whole tree, a
\* root with id 0 over the serialization of every top-level node, as many
\* layout items as the menu has nodes.
C10_GetLayoutIgnoresArguments ==
    call.method = "GetLayout" =>
        LET top == menuIface.menu.children
        IN  /\ call.ret = get_layout(menuIface, 0, 0 - 1, <<>>)
            /\ call.ret[1] = 0
            /\ call.ret[2].id = 0
            /\ Len(call.ret[2].children) = Len(top)
            /\ \A k \in 1..Len(top) : call.ret[2].children[k] = FromSubmenu(top[k])
            /\ CountNodes(call.ret[2]) = CountNodes(menuIface.menu)

\* a depth-0 query below node 2 with a property filter got the three-level tree
C10_Witness ==
    /\ call.method = "GetLayout"
    /\ call.args = <<2, 0, <<"label">>>>
    /\ Len(call.ret[2].children) = 2
    /\ CountNodes(call.ret[2]) = 6
    /\ ~rxAlive

-----------------------------------------------------------------------------
(* Claims about the setters *)

\* the signal the interface declares for the field a setter writes
SignalOfField(op) ==
    CASE op = "set_title"               -> "NewTitle"
      [] op = "set_icon"                -> "NewIcon"
      [] op = "set_overlay"             -> "NewOverlayIcon"
      [] op = "set_attention"           -> "NewAttentionIcon"
      [] op = "set_tooltip"             -> "NewToolTip"
      [] op = "set_tooltip_title"       -> "NewToolTip"
      [] op = "set_tooltip_description" -> "NewToolTip"
      [] op = "set_status"              -> "NewStatus"
      [] op = "set_category"            -> "none"

\* C4: the signal a setter emits is the one of the field it wrote: NewTitle
\* for set_title, NewIcon for set_icon, NewOverlayIcon for set_overlay,
\* NewAttentionIcon for set_attention, NewToolTip for the three tooltip
\* setters, NewStatus for set_status, and never the signal of another field.
C4_SetterEmitsOwnSignal ==
    emitted.name # "none" => emitted.name = SignalOfField(emitted.by)

\* C5: a NewStatus signal carries the status string of the item, the string
\* the Status property reads when the signal is emitted.
C5_NewStatusCarriesStatus ==
    emitted.name = "NewStatus" => emitted.args = <<status(iface)>>

\* the field of the options each setter is for
FieldOf(op) ==
    CASE op = "set_title"               -> "title"
      [] op = "set_icon"                -> "icon"
      [] op = "set_overlay"             -> "overlay"
      [] op = "set_attention"           -> "attention"
      [] op = "set_tooltip"             -> "tooltip"
      [] op = "set_tooltip_title"       -> "tooltip"
      [] op = "set_tooltip_description" -> "tooltip"
      [] op = "set_status"              -> "status"
      [] op = "set_category"            -> "category"

\* the step in which a setter call takes the lock and writes
IsWrite == app.pc = "idle" /\ app'.pc = "emit"

\* C7: a setter writes the field it is for and nothing else: the other
\* fields of the options, the callbacks, the id and the menu path stay as
\* they were; set_tooltip_title changes tooltip.title alone and
\* set_tooltip_description tooltip.description alone; the rest of a setter
\* call (emission, return) writes nothing.
C7_SetterWritesOneField ==
    [][/\ IsWrite =>
            LET op == app'.op
                o  == iface.options
                n  == iface'.options
            IN  /\ iface'.id = iface.id
                /\ iface'.callbacks = iface.callbacks
                /\ iface'.menu = iface.menu
                /\ \A f \in (DOMAIN o) \ {FieldOf(op)} : n[f] = o[f]
                /\ CASE op = "set_tooltip_title" ->
                            n.tooltip = [o.tooltip EXCEPT !.title = app'.arg]
                     [] op = "set_tooltip_description" ->
                            n.tooltip = [o.tooltip EXCEPT !.description = app'.arg]
                     [] OTHER -> n[FieldOf(op)] = app'.arg
       /\ app.pc # "idle" => iface' = iface]_vars

\* set_tooltip_title has written a title into a tooltip that had a
\* description and a pixmap icon, with a title and an overlay set before
C7_Witness ==
    /\ app.pc = "emit"
    /\ app.op = "set_tooltip_title"
    /\ iface.options.tooltip = ToolTip(IconPixmaps(<<Pm>>), "A", "B")
    /\ iface.options.title = "B"
    /\ iface.options.overlay = IconName("o")

\* the tooltip a setter would leave if it took nothing from the old one
FreshToolTip(op, arg) ==
    CASE op = "set_tooltip"             -> arg
      [] op = "set_tooltip_title"       -> ToolTip(IconDefault, arg, "")
      [] op = "set_tooltip_description" -> ToolTip(IconDefault, "", arg)

ToolTipSetters == {"set_tooltip", "set_tooltip_title", "set_tooltip_description"}

\* C8 as stated: every update of the tooltip replaces it whole, no part of
\* the tooltip after the update is carried over from the one before.
C8_ToolTipReplacedWhole ==
    [][IsWrite /\ app'.op \in ToolTipSetters =>
          iface'.options.tooltip = FreshToolTip(app'.op, app'.arg)]_vars

\* C8 as amended: set_tooltip replaces the tooltip whole (icon, title and
\* description are those of its argument); set_tooltip_title replaces the
\* title and carries the icon and the description over, and
\* set_tooltip_description replaces the description and carries the icon and
\* the title over.
C8_ToolTipReplacedBySetToolTipOnly ==
    [][IsWrite /\ app'.op \in ToolTipSetters =>
          LET old == iface.options.tooltip
              new == iface'.options.tooltip
          IN  CASE app'.op = "set_tooltip" -> new = app'.arg
                [] app'.op = "set_tooltip_title" ->
                       /\ new.title = app'.arg
                       /\ new.icon = old.icon
                       /\ new.description = old.description
                [] app'.op = "set_tooltip_description" ->
                       /\ new.description = app'.arg
                       /\ new.icon = old.icon
                       /\ new.title = old.title]_vars

\* set_tooltip has replaced a tooltip that had been patched part by part
C8_Witness ==
    /\ app.pc = "ret"
    /\ app.op = "set_tooltip"
    /\ app.arg = ToolTip(IconPixmaps(<<Pm>>), "B", "B")
    /\ iface.options.tooltip = app.arg
    /\ iface.options.status = "Status::Passive"

-----------------------------------------------------------------------------
(* Claims about reads during an update *)

-----------------------------------------------------------------------------
(* Claims about the layout serializer *)

\* C11: for the menu of the tray example, whose nodes are node 2 labelled
\* "Toggle Check" and node 3 labelled "Toggle Visible", GetLayout(0, -1, [])
\* returns a layout whose root has children-display = "submenu" and exactly
\* two children, with ids 2 and 3 in that order, each with its label as
\* given, no children-display key and no children.
C11_ExampleLayout ==
    (/\ call.method = "GetLayout"
     /\ call.args = <<0, 0 - 1, <<>>>>
     /\ menuIface.menu = Menu(<<Node2, Node3>>)) =>
        LET root == call.ret[2]
        IN  /\ "children-display" \in DOMAIN root.properties
            /\ root.properties["children-display"] = "submenu"
            /\ Len(root.children) = 2
            /\ root.children[1].id = 2
            /\ root.children[2].id = 3
            /\ \A k \in 1..2 :
                  /\ "label" \in DOMAIN root.children[k].properties
                  /\ "children-display" \notin DOMAIN root.children[k].properties
                  /\ root.children[k].children = <<>>
            /\ root.children[1].properties["label"] = "Toggle Check"
            /\ root.children[2].properties["label"] = "Toggle Visible"

\* GetLayout(0, -1, []) was answered for the menu of the example
C11_Witness ==
    /\ call.method = "GetLayout"
    /\ call.args = <<0, 0 - 1, <<>>>>
    /\ menuIface.menu = Menu(<<Node2, Node3>>)
    /\ Len(call.ret[2].children) = 2

\* the label and the icon name a layout item carries, as Options
LabelOf(item) ==
    IF "label" \in DOMAIN item.properties
    THEN Some(item.properties["label"]) ELSE None

IconNameOf(item) ==
    IF "icon-name" \in DOMAIN item.properties
    THEN Some(item.properties["icon-name"]) ELSE None

\* item has one child for each child of node, in the order of node, and so
\* has every item below it
RECURSIVE ChildrenKept(_, _)
ChildrenKept(node, item) ==
    /\ Len(item.children) = Len(node.children)
    /\ node.children # <<>> =>
          /\ "children-display" \in DOMAIN item.properties
          /\ item.properties["children-display"] = "submenu"
    /\ \A k \in 1..Len(node.children) :
          /\ item.children[k].id = node.children[k].id
          /\ LabelOf(item.children[k]) = node.children[k].label
          /\ IconNameOf(item.children[k]) = node.children[k].icon_name
          /\ ChildrenKept(node.children[k], item.children[k])

\* C12: at every depth of the layout GetLayout returns, a node with at least
\* one child is serialized with children-display = "submenu" and with as many
\* children as the node has, the k-th being the serialization of the node's
\* k-th child: none skipped, none out of order, none dropped as a duplicate.
C12_ChildrenInOrder ==
    call.method = "GetLayout" => ChildrenKept(menuIface.menu, call.ret[2])

\* the layout of a three-level menu in which two sibling nodes are the same
\* and two have the same id
C12_Witness ==
    /\ call.method = "GetLayout"
    /\ Len(menuIface.menu.children) = 2
    /\ menuIface.menu.children[1].id = menuIface.menu.children[2].id
    /\ Len(call.ret[2].children[2].children) = 1
    /\ Len(call.ret[2].children[2].children[1].children) = 2
    /\ call.ret[2].children[2].children[1].children[1] =
          call.ret[2].children[2].children[1].children[2]

\* the keys the property bag of a node's item is to have
KeysOf(node) ==
    (IF node.icon_name # None THEN {"icon-name"} ELSE {}) \cup
    (IF node.label # None THEN {"label"} ELSE {}) \cup
    (IF node.children # <<>> THEN {"children-display"} ELSE {})

\* item and every item below it has the id of its node and exactly its keys
RECURSIVE BagExact(_, _)
BagExact(node, item) ==
    /\ item.id = node.id
    /\ DOMAIN item.properties = KeysOf(node)
    /\ IconNameOf(item) = node.icon_name
    /\ LabelOf(item) = node.label
    /\ KeysOf(node) = {} => item = LayoutItem(node.id, EmptyMap, <<>>)
    /\ \A k \in 1..Len(node.children) :
          k <= Len(item.children) => BagExact(node.children[k], item.children[k])

\* C13: the item of every menu node has the node's id and a property bag
\* with exactly these keys: icon-name if and only if the node has an icon
\* name, label if and only if it has a label, children-display if and only
\* if it has at least one child; a node with none of the three is serialized
\* as its id, an empty bag and no children.
C13_PropertyBagExact ==
    call.method = "GetLayout" =>
        \A k \in 1..Len(menuIface.menu.children) :
            /\ k <= Len(call.ret[2].children)
            /\ BagExact(menuIface.menu.children[k], call.ret[2].children[k])

\* the layout of a menu whose one node has no icon name, no label, no child
C13_Witness ==
    /\ call.method = "GetLayout"
    /\ menuIface.menu = Menu(<<Submenu(2, None, None, <<>>)>>)
    /\ call.ret[2].children = <<LayoutItem(2, EmptyMap, <<>>)>>

-----------------------------------------------------------------------------
(* Claims about the constructor *)

\* the steps of new made so far are all different
NoStepTwice(tried) ==
    \A j, k \in 1..Len(tried) : j # k => tried[j] # tried[k]

\* C16: when a step of new fails (the watcher connection, the bus session,
\* the name, serving the item, building the connection, serving the menu,
\* the registration at the watcher, the interface lookup), new returns the
\* error of that step: no step is made a second time, no step is made after
\* the failed one, the result stays that error, and there is no item: the
\* closures are not installed and there is no source to poll.
C16_NewFailsOnce ==
    /\ [](/\ NoStepTwice(ctor.tried)
          /\ ctor.pc = "failed" =>
                /\ NewResult(ctor, iface) = Err(ctor.tried[Len(ctor.tried)])
                /\ ~Constructed(iface)
                /\ ~ENABLED NewStep
                /\ ~ENABLED InstallForwarder
                /\ ~ENABLED ProcessEvents
          /\ ctor.pc # "failed" => NewResult(ctor, iface) \in {Pending, OkThis})
    /\ [][ctor.pc = "failed" => ctor' = ctor]_vars

\* new failed at its last fallible step, the interface lookup, after the
\* menu had been served and the item registered
C16_Witness ==
    /\ ctor.pc = "failed"
    /\ ctor.res = Err("lookup")
    /\ ctor.tried = NewSteps
    /\ ctor.menu = Some(Menu(<<Node2, Node3>>))
    /\ ~Served(iface)

-----------------------------------------------------------------------------
(* Claims about AboutToShow and the tray value *)

\* C18: AboutToShow returns false for every id (negative, zero, positive),
\* changes no state of the item, the menu or the channel, and sends nothing.
C18_AboutToShowFalse ==
    [][call'.method = "AboutToShow" =>
          /\ call'.ret = FALSE
          /\ call'.outcome = "ok"
          /\ UNCHANGED <<itemVars, bridgeVars, menuIface, emitted, tx, snap>>]_vars

\* AboutToShow was called with a negative id while a message was waiting
C18_Witness ==
    /\ call.method = "AboutToShow"
    /\ call.args = <<0 - 1>>
    /\ call.ret = FALSE
    /\ Len(queue) = 1

\* the field each builder method is for
TrayFieldOf(method) ==
    CASE method = "tooltip"          -> "tooltip"
      [] method = "title"            -> "title"
      [] method = "icon"             -> "icon"
      [] method = "icon_as_template" -> "icon_is_template"
      [] method = "menu"             -> "menu_builder"
      [] method = "visible"          -> "visible"

\* C19: Tray::new() gives visible = true, icon_is_template = false and
\* tooltip, title, icon, icon_data and menu_builder unset; a builder method
\* sets the field it is for (to Some of its argument, or to its argument for
\* the two flags) and leaves every other field as it was.
C19_TrayBuilders ==
    /\ tray.visible = TRUE
    /\ tray.icon_is_template = FALSE
    /\ tray.tooltip = None
    /\ tray.title = None
    /\ tray.icon = None
    /\ tray.icon_data = None
    /\ tray.menu_builder = None
    /\ [][call'.method = "Tray" =>
             LET f == TrayFieldOf(call'.builder)
             IN  /\ \A g \in (DOMAIN tray) \ {f} : tray'[g] = tray[g]
                 /\ tray'[f] = IF f \in {"icon_is_template", "visible"}
                               THEN call'.arg[1] ELSE Some(call'.arg[1])]_vars

\* the icon was replaced on a tray that has rendered icon data, a title and
\* is hidden
C19_Witness ==
    /\ call.method = "Tray"
    /\ call.builder = "icon"
    /\ tray.icon_data # None
    /\ tray.title = Some("A")
    /\ ~tray.visible

-----------------------------------------------------------------------------
(* Claims about signals, errors and the lock *)

ItemSignals ==
    {"NewTitle", "NewIcon", "NewAttentionIcon", "NewOverlayIcon", "NewToolTip",
     "NewStatus"}

\* C14: a signal of the item (NewTitle, NewIcon, NewAttentionIcon,
\* NewOverlayIcon, NewToolTip, NewStatus) is emitted only by the emission
\* step of a setter call of the application: a property read or write, an
\* inbound method, a registration of a callback, GetLayout, Event,
\* AboutToShow and process_events emit none.
C14_SignalsOnlyFromSetters ==
    [][emitted'.name # "none" =>
          /\ emitted'.name \in ItemSignals
          /\ app.pc = "emit"
          /\ app'.pc = "ret"
          /\ emitted'.by = app.op
          /\ emitted'.by \in Setters
          /\ call' = NoCall]_vars

\* set_status emitted NewStatus after a callback had been registered and the
\* receiver dropped
C14_Witness ==
    /\ emitted.name = "NewStatus"
    /\ emitted.by = "set_status"
    /\ iface.callbacks.on_scroll = Some("app")
    /\ ~rxAlive

\* the value of the field a setter is for
FieldValue(op, o) ==
    CASE op = "set_title"               -> o.title
      [] op = "set_icon"                -> o.icon
      [] op = "set_overlay"             -> o.overlay
      [] op = "set_attention"           -> o.attention
      [] op = "set_tooltip"             -> o.tooltip
      [] op = "set_tooltip_title"       -> o.tooltip.title
      [] op = "set_tooltip_description" -> o.tooltip.description
      [] op = "set_status"              -> o.status
      [] op = "set_category"            -> o.category

\* C15: a setter whose emission failed returns the error to its caller, and
\* one whose emission succeeded returns Ok; either way the field it wrote
\* holds the new value when it returns, the return writes nothing, and a
\* property read is answered from the state as it then is.
C15_EmissionFailureKeepsValue ==
    /\ [](app.pc = "ret" =>
            /\ app.res = "Err" <=> emitted.name = "none"
            /\ app.res \in {"Ok", "Err"}
            /\ FieldValue(app.op, iface.options) = app.arg)
    /\ [][/\ app.pc = "ret" => iface' = iface /\ app' = Idle
          /\ call'.method = "Get" =>
                call'.ret = GetProperty(call'.args[1], iface')]_vars

\* set_icon wrote a pixmap icon over a named one and its emission failed
C15_Witness ==
    /\ app.pc = "ret"
    /\ app.op = "set_icon"
    /\ app.res = "Err"
    /\ emitted = NoSignal
    /\ icon_pixmap(iface) = <<Pm>>
    /\ icon_name(iface) = ""

\* C17: of the name and the pixmap list read for the icon, the overlay icon,
\* the attention icon and the icon of the tooltip, at most one is non-empty;
\* and an icon changes between a name and pixmaps only in the write of the
\* setter of its field: set_icon, set_overlay, set_attention, set_tooltip.
C17_IconOneVariant ==
    /\ [](/\ ~(icon_name(iface) # "" /\ icon_pixmap(iface) # <<>>)
          /\ ~(overlay_icon_name(iface) # "" /\ overlay_icon_pixmap(iface) # <<>>)
          /\ ~(attention_icon_name(iface) # "" /\ attention_icon_pixmap(iface) # <<>>)
          /\ ~(ToolTipToStructure(tooltip(iface))[1] # ""
                  /\ ToolTipToStructure(tooltip(iface))[2] # <<>>))
    /\ [][LET o == iface.options
              n == iface'.options
          IN  /\ IsName(n.icon) # IsName(o.icon) =>
                    IsWrite /\ app'.op = "set_icon"
              /\ IsName(n.overlay) # IsName(o.overlay) =>
                    IsWrite /\ app'.op = "set_overlay"
              /\ IsName(n.attention.icon) # IsName(o.attention.icon) =>
                    IsWrite /\ app'.op = "set_attention"
              /\ IsName(n.tooltip.icon) # IsName(o.tooltip.icon) =>
                    IsWrite /\ app'.op = "set_tooltip"]_vars

\* the icon is a name, the attention icon and the tooltip's icon are pixmaps
C17_Witness ==
    /\ icon_name(iface) = "i"
    /\ icon_pixmap(iface) = <<>>
    /\ attention_icon_name(iface) = ""
    /\ attention_icon_pixmap(iface) = <<Pm>>
    /\ ToolTipToStructure(tooltip(iface)) = <<"", <<Pm>>, "B", "A">>
    /\ call.method = "Get"
    /\ call.args = <<"IconName">>

\* C20: a setter releases the write lock on the interface after it has
\* written the field and before it emits the signal: no signal is emitted
\* while the setter holds the lock.
C20_EmitAfterRelease ==
    emitted.name # "none" => ~emitted.locked

C22_HandlerCompletes ==
    /\ [](task.pc = "run" /\ task.todo # <<>> => ENABLED HandlerSend)
    /\ [](task.pc = "run" /\ task.todo = <<>> => ENABLED HandlerReturn)
    /\ (task.pc = "run") ~> (task.pc = "idle")

\* a handler is about to send while the channel holds a message nobody has
\* polled for: the consumer has not called process_events once
C22_Witness ==
    /\ task.pc = "run"
    /\ task.todo # <<>>
    /\ rxAlive
    /\ Len(queue) = MaxUnpolled - 1
    /\ post = "none"
    /\ delivered = <<>>

\* C23: the menu tree is fixed when the item is constructed: whatever setters,
\* inbound methods, Event and AboutToShow calls and process_events calls come
\* in between, every GetLayout call returns one and the same layout, that of
\* the menu handed to new, which the first call returned.
C23_LayoutFixed ==
    /\ [](call.method = "GetLayout" =>
             /\ ctor.menu # None
             /\ call.ret = get_layout(MenuInterface(ctor.menu[1]), 0, 0 - 1,
                                     <<>>))
    /\ [][Served(menuIface) /\ Served(menuIface') =>
             menuIface'.menu = menuIface.menu]_vars

\* a GetLayout call after a setter and a bus write have changed the title, the
\* application has registered a callback and the consumer has polled
C23_Witness ==
    /\ call.method = "GetLayout"
    /\ iface.options.title # ctor.options.title
    /\ iface.options.status # ctor.options.status
    /\ iface.callbacks.on_context_menu = Some("app")
    /\ post = "Continue"

\* C24: the signal LayoutUpdated is never emitted: not by the construction
\* of the item, not by GetLayout, Event or AboutToShow, not by a setter and
\* not by an inbound method.
C24_NoLayoutUpdated ==
    /\ \A revision \in 0..1, parent \in Ints :
          emitted.name # layout_updated(revision, parent).name
    /\ call.method \in {"GetLayout", "Event", "AboutToShow"} \cup Methods =>
          emitted.name = "none"
    /\ ctor.pc # "hooks" => emitted.name = "none"

\* AboutToShow is answered for the menu of an item whose title and status
\* the application has changed since it was constructed
C24_Witness ==
    /\ call.method = "AboutToShow"
    /\ emitted.name = "none"
    /\ Len(ctor.tried) = Len(NewSteps)
    /\ iface.options.title # ctor.options.title
    /\ iface.options.status # ctor.options.status

\* new has registered the item with the watcher (line 407) under the bus name
\* its connection owns (lines 394-398): the shell can find and call the item
Registered(c) ==
    /\ c.pc \in {"lookup", "hooks"}
    /\ \E k \in 1..Len(c.tried) : c.tried[k] = "register"

\* C25: from the moment the item is reachable by the shell (its name owned,
\* the item registered with the watcher), every Activate, SecondaryActivate,
\* Scroll and ProvideXdgActivationToken call the item handles puts the
\* matching event on the bridge: none is dropped because its forwarding
\* callback is not installed yet.
C25_ReachableCallsForwarded ==
    (/\ call.method \in Methods \ {"ContextMenu"}
     /\ Registered(ctor)
     /\ call.alive)
    => /\ Len(call.invoked) = 1
       /\ sent # <<>>
       /\ sent[Len(sent)] =
              ClosureSends(ForwardClosure(SlotOf(call.method)), call.args)[1]

\* C26: whenever the item's Menu property reads as /MenuBar to a bus client, the
\* menu interface is already served at /MenuBar on that connection; an item
\* built without a menu reads as the default path, and nothing is served at
\* /MenuBar.
C26_MenuPathServed ==
    (call.method = "Get" /\ call.args = <<"Menu">>)
    => /\ call.ret = DBUS_MENU_PATH => Served(menuIface)
       /\ ctor.menu = None => call.ret = DefaultPath /\ ~Served(menuIface)

\* C27: no request arriving over the bus changes a field of the options: a
\* field changes only in the write of a setter call of the application, the
\* title only in that of set_title (whose next step emits NewTitle), and a
\* bus write to the property named Category leaves the title as it was.
C27_BusCannotWriteOptions ==
    [][/\ iface'.options # iface.options => IsWrite
       /\ iface'.options.title # iface.options.title =>
              /\ app'.pc = "emit"
              /\ app'.op = "set_title"
       /\ call'.method = "Set" =>
              iface'.options.title = iface.options.title]_vars

=============================================================================
